---- MODULE Spec2Model ----
(***************************************************************************)
(* The real-time paired game session subsystem of src/app.py: the          *)
(* Socket.IO handlers join, ready, move, game_over and forfeit, the        *)
(* scoring pipeline handle_game_over and the rating function               *)
(* calculate_elo, over the persisted rows GameSession, User.elo, Streak    *)
(* and GameHistory.  In Spec and SpecRelay one handler runs to completion   *)
(* per step (the sequential view of the event loop); SpecFaults, SpecRace  *)
(* and SpecHandshake take a handler one database round trip at a time.     *)
(***************************************************************************)
EXTENDS Integers, Sequences, FiniteSets, TLC

VARIABLES
    sessions,   \* game_sessions table: session id -> GameSession row
    elo,        \* users.elo column: user id -> rating
    streak,     \* streaks table: user id -> [games_played, games_won, points]
    history,    \* game_history table, in insertion order
    rooms,      \* Socket.IO rooms "game_<id>": id -> connections subscribed
    out,        \* what the handler that ran last emitted, in order
    sent,       \* room broadcasts emitted so far, per event name
    tx,         \* step view: handler invocation -> its position and ORM session
    faults,     \* step view: writes the database has refused so far
    notifs      \* notifications table, in insertion order

vars == <<sessions, elo, streak, history, rooms, out, sent, tx, faults, notifs>>

\* the step view of a handler, untouched when a handler runs in one step
stepvars == <<tx, faults>>

----------------------------------------------------------------------------
(* Bounds of the exploration *)

\* scored terminations explored (rows of game_history)
MaxGames == 2
\* broadcasts of one kind explored
MaxSent == 2
\* refused database writes explored
MaxFaults == 1

----------------------------------------------------------------------------
(* Program constants and the data the events range over *)

\* Python None for an id (a falsy id: `not winner_id`)
NoUser == 0
\* k = 32
K == 32
\* users.elo INTEGER DEFAULT 1200
DefaultElo == 1200

\* Users 1 and 2 are the two participants of session 1, user 3 is a logged-in
\* user who is in neither seat.  A user's connection is named by the user id.
Users == 1..3
\* the two participants of session 1
Players == {1, 2}
\* Room names "game_<id>": session 1 exists, id 2 names no row.
RoomIds == 1..2
\* the sessions the events of Spec name
SessionIds == {1}

\* winner_color as sent by the three game clients; "" is an absent field
Colors == {"", "w", "b"}
\* winner_id as sent by a client: absent, or any user id
WinnerIds == {NoUser} \cup Users
\* the state-carrying fields of a move payload; "" is an absent field.  The
\* board of the tic-tac-toe client is a list: "[X]" stands for the list ["X"].
MoveData == [fen : {"", "e4"}, board : {"", "[X]"}, game_state : {"", "m1"}]
\* the move payloads of Spec: a chess client's, with or without a position
ChessMoves == {d \in MoveData : d.board = "" /\ d.game_state = ""}

\* the broadcasts counted over the whole run
CountedEvents == {"game_start"}

\* GameSession row as created by challenge_buddy / seed_db: waiting, ready
\* flags at their column default False, challenger holds the turn.
NewSession(id, game_id, p1, p2) ==
    [id |-> id, game_id |-> game_id, player1_id |-> p1, player2_id |-> p2,
     current_turn_id |-> p1, status |-> "waiting",
     player1_ready |-> FALSE, player2_ready |-> FALSE,
     game_state |-> "", winner_id |-> NoUser]

\* Streak row as created at registration: counters at their default 0
NewStreak == [games_played |-> 0, games_won |-> 0, points |-> 0]

\* handler invocations that may be in flight together
Procs == 1..2

\* the payload of an event that is not a move
NoData == [fen |-> "", board |-> "", game_state |-> ""]
\* the ratings of an invocation that has not called calculate_elo
NoRatings == <<0, 0, 0, 0>>

\* an invocation slot before its first event
Idle == [pc |-> "idle", op |-> "", user |-> NoUser, winner |-> NoUser,
         draw |-> FALSE, data |-> NoData, gs |-> NewSession(0, 0, NoUser, NoUser),
         r |-> NoRatings, h0 |-> 0, at |-> ""]

Emit(event, to, data) == [event |-> event, to |-> to, data |-> data]

\* the broadcasts to a game room among a handler's emissions
Count(event, emitted) ==
    Cardinality({i \in 1..Len(emitted) : emitted[i].event = event})

Bump(emitted) ==
    [e \in CountedEvents |-> sent[e] + Count(e, emitted)]

WithinSent(emitted) ==
    \A e \in CountedEvents : sent[e] + Count(e, emitted) <= MaxSent

----------------------------------------------------------------------------
(* calculate_elo *)

\* round(32 / (1 + 10 ** (d / 400))) as a step function of the integer
\* rating difference d = opponent - own: EloSteps[m] is the largest d at which
\* the rounded value is still >= m.  32 * expected is never half-way between
\* two integers at an integer d other than through the exact value 16 at
\* d = 0, so the rounding mode plays no part.
EloSteps ==
    <<719, 523, 428, 364, 314, 273, 237, 205, 176, 149, 124, 100, 77, 54, 32,
      10, -11, -33, -55, -78, -101, -125, -150, -177, -206, -238, -274, -315,
      -365, -429, -524, -720>>

\* K * expected score of the player whose opponent is d points above
KExpected(d) == Cardinality({m \in 1..K : d <= EloSteps[m]})

\* an actual score that counts a draw as a loss for both
Actual2DrawLost(winner_id, pid, is_draw) ==
    IF is_draw THEN 0 ELSE IF winner_id = pid THEN 2 ELSE 0

\* twice the actual score: 1 for a draw, else 2 for the winner and 0 otherwise
Actual2(winner_id, pid, is_draw) ==
    IF is_draw THEN 1 ELSE IF winner_id = pid THEN 2 ELSE 0

\* round(own + k * (actual - expected))
NewElo(own, opp, actual2) == own + (K * actual2) \div 2 - KExpected(opp - own)

\* a rating function that works out player two's expected score against
\* player one's new rating
calculate_elo_stale(winner_id, p1_id, p2_id, is_draw) ==
    LET p1_new == NewElo(elo[p1_id], elo[p2_id], Actual2(winner_id, p1_id, is_draw))
    IN  <<elo[p1_id], p1_new, elo[p2_id],
          NewElo(elo[p2_id], p1_new, Actual2(winner_id, p2_id, is_draw))>>

\* <<p1_old_elo, p1.elo, p2_old_elo, p2.elo>>
calculate_elo(winner_id, p1_id, p2_id, is_draw) ==
    <<elo[p1_id],
      NewElo(elo[p1_id], elo[p2_id], Actual2(winner_id, p1_id, is_draw)),
      elo[p2_id],
      NewElo(elo[p2_id], elo[p1_id], Actual2(winner_id, p2_id, is_draw))>>

----------------------------------------------------------------------------
(* handle_game_over *)

\* `if not gs or gs.status == 'completed': return None`
Scores(sid) == sid \in DOMAIN sessions /\ sessions[sid].status # "completed"

\* a resolution that lets a winner_color override the supplied winner_id
ResolveWinnerColorFirst(gs, winner_id, winner_color) ==
    IF winner_color # ""
    THEN IF winner_color \in {"w", "red", "X"} THEN gs.player1_id
         ELSE gs.player2_id
    ELSE winner_id

\* winner_id as resolved from the event's winner_id / winner_color
ResolveWinner(gs, winner_id, winner_color) ==
    IF winner_id = NoUser /\ winner_color # ""
    THEN IF winner_color \in {"w", "red", "X"} THEN gs.player1_id
         ELSE gs.player2_id
    ELSE winner_id

\* a streak update that counts the game for the winner alone
StreakAfterWinnerOnly(st, pid, winner_id, is_draw) ==
    [games_played |-> IF pid = winner_id THEN st.games_played + 1
                      ELSE st.games_played,
     games_won    |-> IF pid = winner_id THEN st.games_won + 1 ELSE st.games_won,
     points       |-> st.points + (IF pid = winner_id THEN 50
                                   ELSE IF is_draw THEN 20 ELSE 5)]

\* the streak row of pid after one scored game
StreakAfter(st, pid, winner_id, is_draw) ==
    [games_played |-> st.games_played + 1,
     games_won    |-> IF pid = winner_id THEN st.games_won + 1 ELSE st.games_won,
     points       |-> st.points + (IF pid = winner_id THEN 50
                                   ELSE IF is_draw THEN 20 ELSE 5)]

\* a statistics dict that reports the new ratings as the old ones too
StatsNewOnly(sid, winner_id, winner_color, is_draw) ==
    LET gs == sessions[sid]
        w  == ResolveWinner(gs, winner_id, winner_color)
        r  == calculate_elo(w, gs.player1_id, gs.player2_id, is_draw)
    IN  [winner_id |-> w, is_draw |-> is_draw,
         p1 |-> [id |-> gs.player1_id, old_elo |-> r[2], new_elo |-> r[2]],
         p2 |-> [id |-> gs.player2_id, old_elo |-> r[4], new_elo |-> r[4]]]

\* the dict handle_game_over returns
Stats(sid, winner_id, winner_color, is_draw) ==
    LET gs == sessions[sid]
        w  == ResolveWinner(gs, winner_id, winner_color)
        r  == calculate_elo(w, gs.player1_id, gs.player2_id, is_draw)
    IN  [winner_id |-> w, is_draw |-> is_draw,
         p1 |-> [id |-> gs.player1_id, old_elo |-> r[1], new_elo |-> r[2]],
         p2 |-> [id |-> gs.player2_id, old_elo |-> r[3], new_elo |-> r[4]]]

\* the body of handle_game_over past its guard: the session row, the two
\* ratings, the history row and the two streak rows
handle_game_over(sid, winner_id, winner_color, is_draw) ==
    LET gs == sessions[sid]
        w  == ResolveWinner(gs, winner_id, winner_color)
        r  == calculate_elo(w, gs.player1_id, gs.player2_id, is_draw)
    IN  /\ Len(history) < MaxGames
        /\ sessions' = [sessions EXCEPT ![sid].status = "completed",
                                        ![sid].winner_id = w]
        /\ elo' = [elo EXCEPT ![gs.player1_id] = r[2], ![gs.player2_id] = r[4]]
        /\ history' = Append(history,
              [game_id |-> gs.game_id,
               player1_id |-> gs.player1_id, player2_id |-> gs.player2_id,
               winner_id |-> w,
               player1_elo_before |-> r[1], player1_elo_after |-> r[2],
               player2_elo_before |-> r[3], player2_elo_after |-> r[4]])
        /\ streak' = [u \in Users |->
              IF u \in {gs.player1_id, gs.player2_id}
              THEN StreakAfter(streak[u], u, w, is_draw) ELSE streak[u]]

----------------------------------------------------------------------------
(* Socket.IO handlers *)

\* a handler that returns without a write and without an emission
NoOp == /\ out' = <<>>
        /\ UNCHANGED <<sessions, elo, streak, history, rooms, sent, stepvars, notifs>>

Finish(emitted) ==
    /\ WithinSent(emitted)
    /\ out' = emitted
    /\ sent' = Bump(emitted)
    /\ UNCHANGED <<stepvars, notifs>>

on_game_over(sid, winner_id, winner_color, is_draw) ==
    IF Scores(sid)
    THEN /\ handle_game_over(sid, winner_id, winner_color, is_draw)
         /\ Finish(<<Emit("game_over_stats", rooms[sid],
                          Stats(sid, winner_id, winner_color, is_draw))>>)
         /\ UNCHANGED rooms
    ELSE NoOp

\* a snapshot that reports player one's flag for both players
SnapshotOneFlag(gs) ==
    [status |-> gs.status, game_state |-> gs.game_state,
     p1_ready |-> gs.player1_ready, p2_ready |-> gs.player1_ready,
     p1_id |-> gs.player1_id, p2_id |-> gs.player2_id]

Snapshot(gs) ==
    [status |-> gs.status, game_state |-> gs.game_state,
     p1_ready |-> gs.player1_ready, p2_ready |-> gs.player2_ready,
     p1_id |-> gs.player1_id, p2_id |-> gs.player2_id]

on_join(c, game_id) ==
    /\ rooms' = [rooms EXCEPT ![game_id] = @ \cup {c}]
    /\ out' = IF game_id \in DOMAIN sessions
              THEN <<Emit("init_game", {c}, Snapshot(sessions[game_id]))>>
              ELSE <<>>
    /\ UNCHANGED <<sessions, elo, streak, history, sent, stepvars, notifs>>

\* the session row after the ready-flag branch of on_ready
ReadyFlagged(gs, user_id) ==
    IF gs.player1_id = user_id THEN [gs EXCEPT !.player1_ready = TRUE]
    ELSE IF gs.player2_id = user_id THEN [gs EXCEPT !.player2_ready = TRUE]
    ELSE gs

on_ready(user_id, sid) ==
    IF sid \notin DOMAIN sessions THEN NoOp
    ELSE LET gs == ReadyFlagged(sessions[sid], user_id)
         IN  /\ IF gs.player1_ready /\ gs.player2_ready
                THEN /\ sessions' = [sessions EXCEPT
                                        ![sid] = [gs EXCEPT !.status = "active"]]
                     /\ Finish(<<Emit("game_start", rooms[sid],
                                      [session_id |-> sid])>>)
                ELSE /\ sessions' = [sessions EXCEPT ![sid] = gs]
                     /\ Finish(<<Emit("player_ready", rooms[sid],
                                      [user_id |-> user_id])>>)
             /\ UNCHANGED <<elo, streak, history, rooms>>

\* a winner choice with the two seats swapped: the forfeiter wins
ForfeitWinnerSelf(gs, user_id) ==
    IF user_id = gs.player1_id THEN gs.player1_id ELSE gs.player2_id

\* `winner_id = gs.player2_id if user_id == gs.player1_id else gs.player1_id`
ForfeitWinner(gs, user_id) ==
    IF user_id = gs.player1_id THEN gs.player2_id ELSE gs.player1_id

\* a status test that takes the unscored branch for a started game instead
ForfeitAbandonsActive(gs) == gs.status = "active"

\* `if gs.status == 'waiting':` the branch that ends the session unscored
ForfeitAbandons(gs) == gs.status = "waiting"

\* a forfeit whose opponent_forfeit leaves include_self at its default: the
\* forfeiting connection hears it too
on_forfeit_echo(user_id, sid) ==
    IF Scores(sid)
    THEN LET gs == sessions[sid]
         IN  IF ForfeitAbandons(gs)
             THEN /\ sessions' = [sessions EXCEPT ![sid].status = "abandoned"]
                  /\ Finish(<<Emit("opponent_forfeit", rooms[sid],
                                   [winner_name |-> user_id])>>)
                  /\ UNCHANGED <<elo, streak, history, rooms>>
             ELSE /\ handle_game_over(sid, ForfeitWinner(gs, user_id), "", FALSE)
                  /\ Finish(<<Emit("opponent_forfeit", rooms[sid],
                                   [winner_name |-> user_id]),
                              Emit("game_over_stats", rooms[sid],
                                   Stats(sid, ForfeitWinner(gs, user_id), "",
                                         FALSE))>>)
                  /\ UNCHANGED rooms
    ELSE NoOp

on_forfeit(user_id, sid) ==
    IF Scores(sid)
    THEN LET gs == sessions[sid]
         IN  IF ForfeitAbandons(gs)
             THEN /\ sessions' = [sessions EXCEPT ![sid].status = "abandoned"]
                  /\ Finish(<<Emit("opponent_forfeit", rooms[sid] \ {user_id},
                                   [winner_name |-> user_id])>>)
                  /\ UNCHANGED <<elo, streak, history, rooms>>
             ELSE /\ handle_game_over(sid, ForfeitWinner(gs, user_id), "", FALSE)
                  /\ Finish(<<Emit("opponent_forfeit", rooms[sid] \ {user_id},
                                   [winner_name |-> user_id]),
                              Emit("game_over_stats", rooms[sid],
                                   Stats(sid, ForfeitWinner(gs, user_id), "",
                                         FALSE))>>)
                  /\ UNCHANGED rooms
    ELSE NoOp

\* str(new_state): a string is kept, a list is rendered as its Python repr
PyStr(v) == IF v = "[X]" THEN "['X']" ELSE v

\* `data.get('fen') or data.get('board') or data.get('game_state')`
NewState(data) ==
    IF data.fen # "" THEN data.fen
    ELSE IF data.board # "" THEN data.board ELSE data.game_state

\* a move handler without the `if new_state:` test: an empty blob is written
on_move_unguarded(c, game_id, data) ==
    /\ sessions' = IF game_id \in DOMAIN sessions
                   THEN [sessions EXCEPT ![game_id].game_state = PyStr(NewState(data))]
                   ELSE sessions
    /\ out' = <<Emit("move", rooms[game_id] \ {c}, data)>>
    /\ UNCHANGED <<elo, streak, history, rooms, sent, stepvars, notifs>>

\* a relay that leaves include_self at its default: the sender hears its echo
on_move_echo(c, game_id, data) ==
    /\ sessions' = IF game_id \in DOMAIN sessions /\ NewState(data) # ""
                   THEN [sessions EXCEPT ![game_id].game_state = PyStr(NewState(data))]
                   ELSE sessions
    /\ out' = <<Emit("move", rooms[game_id], data)>>
    /\ UNCHANGED <<elo, streak, history, rooms, sent, stepvars, notifs>>

\* a move handler that also passes the turn to the other player
on_move_passes_turn(c, game_id, data) ==
    /\ sessions' = IF game_id \in DOMAIN sessions /\ NewState(data) # ""
                   THEN [sessions EXCEPT
                           ![game_id].game_state = PyStr(NewState(data)),
                           ![game_id].current_turn_id =
                               IF @ = sessions[game_id].player1_id
                               THEN sessions[game_id].player2_id
                               ELSE sessions[game_id].player1_id]
                   ELSE sessions
    /\ out' = <<Emit("move", rooms[game_id] \ {c}, data)>>
    /\ UNCHANGED <<elo, streak, history, rooms, sent, stepvars, notifs>>

on_move(c, game_id, data) ==
    /\ sessions' = IF game_id \in DOMAIN sessions /\ NewState(data) # ""
                   THEN [sessions EXCEPT ![game_id].game_state = PyStr(NewState(data))]
                   ELSE sessions
    /\ out' = <<Emit("move", rooms[game_id] \ {c}, data)>>
    /\ UNCHANGED <<elo, streak, history, rooms, sent, stepvars, notifs>>

----------------------------------------------------------------------------
(* The system: session 1 between users 1 and 2 exists and is waiting, all   *)
(* users are registered (rating at its default, a streak row each), nobody  *)
(* has joined a room.                                                       *)

Init ==
    /\ sessions = (1 :> NewSession(1, 1, 1, 2))
    /\ elo = [u \in Users |-> DefaultElo]
    /\ streak = [u \in Users |-> NewStreak]
    /\ history = <<>>
    /\ rooms = [s \in RoomIds |-> {}]
    /\ out = <<>>
    /\ sent = [e \in CountedEvents |-> 0]
    /\ tx = [p \in Procs |-> Idle]
    /\ faults = 0
    /\ notifs = <<>>

GameOver == \E sid \in SessionIds, w \in WinnerIds, c \in Colors, d \in BOOLEAN :
                on_game_over(sid, w, c, d)
Join == \E c \in Users, sid \in SessionIds : on_join(c, sid)
Ready == \E u \in Users, sid \in SessionIds : on_ready(u, sid)
Forfeit == \E u \in Users, sid \in SessionIds : on_forfeit(u, sid)
Move == \E c \in Users, sid \in SessionIds, data \in ChessMoves : on_move(c, sid, data)

Next == Join \/ Ready \/ Move \/ GameOver \/ Forfeit

Spec == Init /\ [][Next]_vars

----------------------------------------------------------------------------
(* The relay view: joins of any room name, moves with every payload shape   *)
(* and the readiness handshake, on the session that is never terminated.    *)

JoinAny == \E c \in Users, id \in RoomIds : on_join(c, id)
MoveAny == \E c \in Users, sid \in SessionIds, data \in MoveData :
               on_move(c, sid, data)

RelayNext == JoinAny \/ MoveAny \/ Ready

SpecRelay == Init /\ [][RelayNext]_vars

----------------------------------------------------------------------------
(* Presence: connections join the session's room and drop out of it again   *)
(* while the handshake runs and moves are relayed.                          *)

\* a disconnect handler that gives the game up for a leaving participant
on_disconnect_abandons(c) ==
    /\ rooms' = [r \in RoomIds |-> rooms[r] \ {c}]
    /\ sessions' = [sid \in DOMAIN sessions |->
                      IF c \in {sessions[sid].player1_id, sessions[sid].player2_id}
                      THEN [sessions[sid] EXCEPT !.status = "abandoned"]
                      ELSE sessions[sid]]
    /\ out' = <<>>
    /\ UNCHANGED <<elo, streak, history, sent, stepvars, notifs>>

\* on_disconnect only logs; the server takes the connection out of every
\* room it had joined
on_disconnect(c) ==
    /\ rooms' = [r \in RoomIds |-> rooms[r] \ {c}]
    /\ out' = <<>>
    /\ UNCHANGED <<sessions, elo, streak, history, sent, stepvars, notifs>>

Disconnect == \E c \in Users : on_disconnect(c)

PresenceNext == Join \/ Disconnect \/ Ready \/ Move

SpecPresence == Init /\ [][PresenceNext]_vars

----------------------------------------------------------------------------
(* Events that name a session id without a row: connections join either    *)
(* room name, and ready, move, game_over and forfeit name the unknown id.   *)

StrayIds == RoomIds \ SessionIds

ReadyStray == \E u \in Users, id \in StrayIds : on_ready(u, id)
MoveStray == \E c \in Users, id \in StrayIds, data \in ChessMoves :
                 on_move(c, id, data)
GameOverStray == \E id \in StrayIds, w \in WinnerIds, c \in Colors, d \in BOOLEAN :
                     on_game_over(id, w, c, d)
ForfeitStray == \E u \in Users, id \in StrayIds : on_forfeit(u, id)

StrayNext == JoinAny \/ ReadyStray \/ MoveStray \/ GameOverStray \/ ForfeitStray

SpecStray == Init /\ [][StrayNext]_vars

----------------------------------------------------------------------------
(* The rating function over a range of ratings: the session has been        *)
(* started, its two players carry ratings earned in earlier games, and a    *)
(* game_over with any outcome scores it.                                    *)

Ratings == {1000, 1184, 1200, 1216, 1400}

InitRated ==
    /\ sessions = (1 :> [ReadyFlagged(ReadyFlagged(NewSession(1, 1, 1, 2), 1), 2)
                           EXCEPT !.status = "active"])
    /\ elo \in {e \in [Users -> Ratings \cup {DefaultElo}] :
                   \A u \in Users \ Players : e[u] = DefaultElo}
    /\ streak = [u \in Users |-> NewStreak]
    /\ history = <<>>
    /\ rooms = [s \in RoomIds |-> IF s = 1 THEN Players ELSE {}]
    /\ out = <<Emit("game_start", Players, [session_id |-> 1])>>
    /\ sent = [e \in CountedEvents |-> 1]
    /\ tx = [p \in Procs |-> Idle]
    /\ faults = 0
    /\ notifs = <<>>

SpecRated == InitRated /\ [][GameOver]_vars

----------------------------------------------------------------------------
(* Winner resolution: game_over events with the colour tokens of the three  *)
(* game clients (chess w/b, xiangqi red/black, tic-tac-toe X/O) on the      *)
(* started session.                                                         *)

AllColors == {"", "w", "b", "red", "black", "X", "O"}

GameOverColored ==
    \E sid \in SessionIds, w \in WinnerIds, c \in AllColors, d \in BOOLEAN :
        on_game_over(sid, w, c, d)

SpecResolve == InitRated /\ [][GameOverColored]_vars

----------------------------------------------------------------------------
(* Challenges: the routes /games/challenge/<game_id> of the senior and the  *)
(* youth blueprint and the socket event challenge.  User 1 is a senior      *)
(* paired with the youth user 2; user 3 is a senior whose pairing with      *)
(* user 2 is no longer active.  Session 1 is the seeded session of game 1.  *)

\* session rows explored
MaxSessions == 2

GameIds == {1}

\* the pairs table
Pairs == {[senior_id |-> 1, youth_id |-> 2, status |-> "active"],
          [senior_id |-> 3, youth_id |-> 2, status |-> "inactive"]}

\* a pair lookup that does not look at the status of the pairing
PairOfAnyStatus(user_id, role) == {p \in Pairs : p[role] = user_id}

\* `Pair.query.filter_by(<role>=user_id, status='active')`
PairOf(user_id, role) ==
    {p \in Pairs : p[role] = user_id /\ p.status = "active"}

\* the other end of the pair: pair.youth_id for a senior, pair.senior_id for
\* a youth
Buddy(pair, role) ==
    IF role = "senior_id" THEN pair.youth_id ELSE pair.senior_id

\* room "user_<id>": the user's own connection joined it on connect
UserRoom(user_id) == {user_id}

Max(S) == CHOOSE x \in S : \A y \in S : y <= x

\* the sessions of this game between the two users, in either seating, whose
\* status the route looks for
ExistingSessions(game_id, user_id, buddy_id, statuses) ==
    {sid \in DOMAIN sessions :
        /\ sessions[sid].game_id = game_id
        /\ sessions[sid].status \in statuses
        /\ \/ sessions[sid].player1_id = user_id
              /\ sessions[sid].player2_id = buddy_id
           \/ sessions[sid].player1_id = buddy_id
              /\ sessions[sid].player2_id = user_id}

\* the Notification row of a challenge; link stands for the game page of
\* the session
Notification(user_id, session_id) ==
    [user_id |-> user_id, type |-> "game", link |-> session_id,
     is_read |-> FALSE]

\* challenge_buddy of either blueprint: role is the pair column the
\* challenger is looked up in, statuses the session states it re-enters.
\* Each of the two commits of the creating branch may be refused.
challenge_buddy(user_id, game_id, role, statuses) ==
    IF PairOf(user_id, role) = {}
    THEN NoOp
    ELSE LET pair     == CHOOSE p \in PairOf(user_id, role) : TRUE
             buddy_id == Buddy(pair, role)
             existing == ExistingSessions(game_id, user_id, buddy_id, statuses)
             new_id   == Max(DOMAIN sessions) + 1
             created  == sessions @@
                           (new_id :> NewSession(new_id, game_id, user_id, buddy_id))
             push     == <<Emit("game_challenge", UserRoom(buddy_id),
                                [challenger_name |-> user_id,
                                 game_title |-> game_id,
                                 session_id |-> new_id])>>
         IN  IF existing # {}
             THEN /\ sessions' = [sid \in DOMAIN sessions \
                                     (existing \ {Max(existing)}) |-> sessions[sid]]
                  /\ out' = <<>>
                  /\ UNCHANGED <<elo, streak, history, rooms, sent, stepvars, notifs>>
             ELSE /\ Cardinality(DOMAIN sessions) < MaxSessions
                  /\ \/ /\ sessions' = created
                        /\ out' = push
                        /\ notifs' = Append(notifs, Notification(buddy_id, new_id))
                        /\ UNCHANGED faults
                     \/ /\ faults < MaxFaults
                        /\ faults' = faults + 1
                        /\ sessions' = created
                        /\ out' = push
                        /\ UNCHANGED notifs
                     \/ /\ faults < MaxFaults
                        /\ faults' = faults + 1
                        /\ out' = <<>>
                        /\ UNCHANGED <<sessions, notifs>>
                  /\ UNCHANGED <<elo, streak, history, rooms, sent, tx>>

senior_challenge_buddy(user_id, game_id) ==
    challenge_buddy(user_id, game_id, "senior_id", {"waiting", "active"})

youth_challenge_buddy(user_id, game_id) ==
    challenge_buddy(user_id, game_id, "youth_id", {"waiting"})

\* the socket event challenge: the payload names the room and the game
on_challenge(c, buddy_id, game_id) ==
    /\ out' = <<Emit("game_challenge", UserRoom(buddy_id),
                     [challenger_name |-> c, challenger_id |-> c,
                      game_id |-> game_id, game_title |-> game_id])>>
    /\ UNCHANGED <<sessions, elo, streak, history, rooms, sent, stepvars, notifs>>

SeniorChallenge == \E u \in Users, g \in GameIds : senior_challenge_buddy(u, g)
YouthChallenge == \E u \in Users, g \in GameIds : youth_challenge_buddy(u, g)
OnChallenge == \E c \in Users, b \in Users, g \in GameIds : on_challenge(c, b, g)
ReadyAny == \E u \in Players, sid \in RoomIds : on_ready(u, sid)

ChallengeNext == SeniorChallenge \/ YouthChallenge \/ OnChallenge \/ ReadyAny

SpecChallenge == Init /\ [][ChallengeNext]_vars

----------------------------------------------------------------------------
(* The step view: a handler invocation is a sequence of steps, one per      *)
(* database round trip that other invocations can observe.  An invocation   *)
(* works on its own SQLAlchemy session: the GameSession object it loaded,   *)
(* UPDATEs of the columns it changed, a reload after each commit.  A commit *)
(* may be refused by the database; the exception ends the invocation and    *)
(* the teardown of its context rolls the open transaction back.             *)

Running(p) == tx[p].pc \notin {"idle", "done", "failed"}

\* `gs = GameSession.query.get(session_id)` at the head of a handler: the row
\* as committed now becomes the invocation's object
Load(p, op, sid, user_id, winner_id, is_draw, data) ==
    /\ ~Running(p)
    /\ sid \in DOMAIN sessions
    /\ tx' = [tx EXCEPT ![p] =
                [pc |-> "loaded", op |-> op, user |-> user_id,
                 winner |-> winner_id, draw |-> is_draw, data |-> data,
                 gs |-> sessions[sid], r |-> NoRatings, h0 |-> Len(history),
                 at |-> ""]]
    /\ UNCHANGED <<sessions, elo, streak, history, rooms, out, sent, faults, notifs>>

\* a handler whose guard `gs.status != 'completed'` fails returns at once
Return(p) ==
    /\ ~Running(p)
    /\ tx' = [tx EXCEPT ![p] = [Idle EXCEPT !.pc = "done"]]
    /\ out' = <<>>
    /\ UNCHANGED <<sessions, elo, streak, history, rooms, sent, faults, notifs>>

\* the UPDATE a flush issues: the columns the invocation changed on its
\* object, and no others, are written over the committed row
Flush(row, loaded, local) ==
    [f \in DOMAIN row |-> IF local[f] # loaded[f] THEN local[f] ELSE row[f]]

Goto(p, pc) == tx' = [tx EXCEPT ![p].pc = pc]

ready_load(p, user_id, sid) == Load(p, "ready", sid, user_id, NoUser, FALSE, NoData)

\* the ready-flag branch and the first `db.session.commit()`
ready_commit(p) ==
    LET t == tx[p] IN
    /\ t.pc = "loaded" /\ t.op = "ready"
    /\ sessions' = [sessions EXCEPT ![t.gs.id] =
                       Flush(@, t.gs, ReadyFlagged(t.gs, t.user))]
    /\ Goto(p, "flagged")
    /\ UNCHANGED <<elo, streak, history, rooms, out, sent, faults, notifs>>

\* a check that starts the game as soon as either flag is set
ready_check_eager(p) ==
    LET t  == tx[p]
        gs == sessions[t.gs.id]
    IN  /\ t.pc = "flagged"
        /\ IF gs.player1_ready \/ gs.player2_ready
           THEN /\ sessions' = [sessions EXCEPT ![t.gs.id].status = "active"]
                /\ Goto(p, "started")
           ELSE /\ UNCHANGED sessions
                /\ Goto(p, "waits")
        /\ UNCHANGED <<elo, streak, history, rooms, out, sent, faults, notifs>>

\* `if gs.player1_ready and gs.player2_ready:` on the reloaded object, and
\* the activation with its commit
ready_check(p) ==
    LET t  == tx[p]
        gs == sessions[t.gs.id]
    IN  /\ t.pc = "flagged"
        /\ IF gs.player1_ready /\ gs.player2_ready
           THEN /\ sessions' = [sessions EXCEPT ![t.gs.id].status = "active"]
                /\ Goto(p, "started")
           ELSE /\ UNCHANGED sessions
                /\ Goto(p, "waits")
        /\ UNCHANGED <<elo, streak, history, rooms, out, sent, faults, notifs>>

game_over_load(p, sid, winner_id, winner_color, is_draw) ==
    IF Scores(sid)
    THEN Load(p, "game_over", sid, NoUser,
              ResolveWinner(sessions[sid], winner_id, winner_color), is_draw,
              NoData)
    ELSE Return(p)

forfeit_load(p, user_id, sid) ==
    IF Scores(sid)
    THEN Load(p, "forfeit", sid, user_id,
              ForfeitWinner(sessions[sid], user_id), FALSE, NoData)
    ELSE Return(p)

\* the invocation is past its guard and on the way into calculate_elo
Scoring(t) ==
    /\ t.pc = "loaded"
    /\ \/ t.op = "game_over"
       \/ t.op = "forfeit" /\ ~ForfeitAbandons(t.gs)

\* handle_game_over up to the commit inside calculate_elo: the session's
\* status and winner and the two ratings become durable together
score_rate(p) ==
    LET t  == tx[p]
        gs == t.gs
        r  == calculate_elo(t.winner, gs.player1_id, gs.player2_id, t.draw)
    IN  /\ Scoring(t)
        /\ Len(history) < MaxGames
        /\ sessions' = [sessions EXCEPT ![gs.id] =
                           Flush(@, gs, [gs EXCEPT !.status = "completed",
                                                   !.winner_id = t.winner])]
        /\ elo' = [elo EXCEPT ![gs.player1_id] = r[2], ![gs.player2_id] = r[4]]
        /\ tx' = [tx EXCEPT ![p].pc = "rated", ![p].r = r]
        /\ UNCHANGED <<streak, history, rooms, out, sent, faults, notifs>>

\* handle_game_over from the history row to its own commit
score_store(p) ==
    LET t  == tx[p]
        gs == t.gs
    IN  /\ t.pc = "rated"
        /\ history' = Append(history,
              [game_id |-> gs.game_id,
               player1_id |-> gs.player1_id, player2_id |-> gs.player2_id,
               winner_id |-> t.winner,
               player1_elo_before |-> t.r[1], player1_elo_after |-> t.r[2],
               player2_elo_before |-> t.r[3], player2_elo_after |-> t.r[4]])
        /\ streak' = [u \in Users |->
              IF u \in {gs.player1_id, gs.player2_id}
              THEN StreakAfter(streak[u], u, t.winner, t.draw) ELSE streak[u]]
        /\ Goto(p, "scored")
        /\ UNCHANGED <<sessions, elo, rooms, out, sent, faults, notifs>>

\* the waiting branch of on_forfeit with its commit
forfeit_abandon(p) ==
    LET t == tx[p] IN
    /\ t.pc = "loaded" /\ t.op = "forfeit" /\ ForfeitAbandons(t.gs)
    /\ sessions' = [sessions EXCEPT ![t.gs.id] =
                       Flush(@, t.gs, [t.gs EXCEPT !.status = "abandoned"])]
    /\ Goto(p, "abandoned")
    /\ UNCHANGED <<elo, streak, history, rooms, out, sent, faults, notifs>>

move_load(p, c, game_id, data) == Load(p, "move", game_id, c, NoUser, FALSE, data)

\* `if new_state:` with the write of the blob and its commit
move_save(p) ==
    LET t == tx[p] IN
    /\ t.pc = "loaded" /\ t.op = "move"
    /\ sessions' = IF NewState(t.data) # ""
                   THEN [sessions EXCEPT ![t.gs.id] =
                           Flush(@, t.gs, [t.gs EXCEPT
                                    !.game_state = PyStr(NewState(t.data))])]
                   ELSE sessions
    /\ Goto(p, "saved")
    /\ UNCHANGED <<elo, streak, history, rooms, out, sent, faults, notifs>>

\* the dict handle_game_over returns, from the invocation's locals
StepStats(t) ==
    [winner_id |-> t.winner, is_draw |-> t.draw,
     p1 |-> [id |-> t.gs.player1_id, old_elo |-> t.r[1], new_elo |-> t.r[2]],
     p2 |-> [id |-> t.gs.player2_id, old_elo |-> t.r[3], new_elo |-> t.r[4]]]

\* what a handler emits once its writes are committed
Emissions(t) ==
    LET sid == t.gs.id IN
    CASE t.pc = "started"   -> <<Emit("game_start", rooms[sid], [session_id |-> sid])>>
      [] t.pc = "waits"     -> <<Emit("player_ready", rooms[sid], [user_id |-> t.user])>>
      [] t.pc = "abandoned" -> <<Emit("opponent_forfeit", rooms[sid] \ {t.user},
                                      [winner_name |-> t.user])>>
      [] t.pc = "saved"     -> <<Emit("move", rooms[sid] \ {t.user}, t.data)>>
      [] t.pc = "scored" /\ t.op = "game_over" ->
             <<Emit("game_over_stats", rooms[sid], StepStats(t))>>
      [] t.pc = "scored" /\ t.op = "forfeit" ->
             <<Emit("opponent_forfeit", rooms[sid] \ {t.user},
                    [winner_name |-> t.user]),
               Emit("game_over_stats", rooms[sid], StepStats(t))>>

\* the emit calls that close a handler
emit(p) ==
    LET t == tx[p] IN
    /\ t.pc \in {"started", "waits", "abandoned", "saved", "scored"}
    /\ WithinSent(Emissions(t))
    /\ out' = Emissions(t)
    /\ sent' = Bump(Emissions(t))
    /\ Goto(p, "done")
    /\ UNCHANGED <<sessions, elo, streak, history, rooms, faults, notifs>>

\* the invocation stands before a `db.session.commit()`
AtCommit(t) ==
    \/ t.pc = "loaded" /\ t.op \in {"ready", "game_over", "forfeit"}
    \/ t.pc = "loaded" /\ t.op = "move" /\ NewState(t.data) # ""
    \/ t.pc = "flagged" /\ sessions[t.gs.id].player1_ready
                        /\ sessions[t.gs.id].player2_ready
    \/ t.pc = "rated"

\* a refused commit that the handler survives: it carries on to its emit
commit_fails_quietly(p) ==
    LET t == tx[p] IN
    /\ AtCommit(t)
    /\ faults < MaxFaults
    /\ faults' = faults + 1
    /\ tx' = [tx EXCEPT ![p].pc =
                 CASE t.pc = "flagged" -> "started"
                   [] t.pc = "rated"   -> "scored"
                   [] t.op = "ready"   -> "waits"
                   [] t.op = "move"    -> "saved"
                   [] Scoring(t)       -> "rated"
                   [] OTHER            -> "abandoned"]
    /\ UNCHANGED <<sessions, elo, streak, history, rooms, out, sent, notifs>>

\* a refused commit without the rollback: the UPDATE of the session row that
\* the query for the players flushed stays written
commit_fails_dirty(p) ==
    LET t == tx[p] IN
    /\ AtCommit(t)
    /\ faults < MaxFaults
    /\ faults' = faults + 1
    /\ tx' = [tx EXCEPT ![p].pc = "failed", ![p].at = t.pc]
    /\ sessions' = IF Scoring(t)
                   THEN [sessions EXCEPT ![t.gs.id] =
                           Flush(@, t.gs, [t.gs EXCEPT !.status = "completed",
                                                       !.winner_id = t.winner])]
                   ELSE sessions
    /\ UNCHANGED <<elo, streak, history, rooms, out, sent, notifs>>

\* `db.session.commit()` raises: nothing of the open transaction becomes
\* durable and the handler is left through the exception
commit_fails(p) ==
    LET t == tx[p] IN
    /\ AtCommit(t)
    /\ faults < MaxFaults
    /\ faults' = faults + 1
    /\ tx' = [tx EXCEPT ![p].pc = "failed", ![p].at = t.pc]
    /\ UNCHANGED <<sessions, elo, streak, history, rooms, out, sent, notifs>>

----------------------------------------------------------------------------
(* The events of the step view: the two participants of session 1, a game   *)
(* won by player one or drawn, a chess move with a position.                *)

Outcomes == {[winner_id |-> 1, is_draw |-> FALSE],
             [winner_id |-> NoUser, is_draw |-> TRUE]}
PositionMoves == {d \in ChessMoves : d.fen # ""}

ReadyLoad(p) == \E u \in Players, sid \in SessionIds : ready_load(p, u, sid)
GameOverLoad(p) == \E sid \in SessionIds, o \in Outcomes :
                       game_over_load(p, sid, o.winner_id, "", o.is_draw)
ForfeitLoad(p) == \E u \in Players, sid \in SessionIds : forfeit_load(p, u, sid)
MoveLoad(p) == \E c \in Players, sid \in SessionIds, data \in PositionMoves :
                   move_load(p, c, sid, data)

\* one handler at a time, each of its commits may be refused
FaultNext ==
    \/ ReadyLoad(1) \/ ready_commit(1) \/ ready_check(1)
    \/ GameOverLoad(1) \/ ForfeitLoad(1)
    \/ score_rate(1) \/ score_store(1) \/ forfeit_abandon(1)
    \/ MoveLoad(1) \/ move_save(1)
    \/ emit(1)
    \/ commit_fails(1)

SpecFaults == Init /\ [][FaultNext]_vars

----------------------------------------------------------------------------
(* Two terminations in flight: the session has been started by the two      *)
(* ready events, both players are in its room, and game_over and forfeit    *)
(* events are handled by two invocations whose steps interleave.            *)

InitActive ==
    /\ sessions = (1 :> [ReadyFlagged(ReadyFlagged(NewSession(1, 1, 1, 2), 1), 2)
                           EXCEPT !.status = "active"])
    /\ elo = [u \in Users |-> DefaultElo]
    /\ streak = [u \in Users |-> NewStreak]
    /\ history = <<>>
    /\ rooms = [s \in RoomIds |-> IF s = 1 THEN Players ELSE {}]
    /\ out = <<Emit("game_start", Players, [session_id |-> 1])>>
    /\ sent = [e \in CountedEvents |-> 1]
    /\ tx = [p \in Procs |-> Idle]
    /\ faults = 0
    /\ notifs = <<>>

RaceNext ==
    \E p \in Procs :
        \/ GameOverLoad(p) \/ ForfeitLoad(p)
        \/ score_rate(p) \/ score_store(p)
        \/ emit(p)

SpecRace == InitActive /\ [][RaceNext]_vars

----------------------------------------------------------------------------
(* The handshake in flight: each participant sends ready once, invocation p *)
(* handles the ready of user p, and connections join the room meanwhile.    *)

HandshakeNext ==
    \/ \E p \in Procs :
          \/ tx[p].pc = "idle" /\ \E sid \in SessionIds : ready_load(p, p, sid)
          \/ ready_commit(p)
          \/ ready_check(p)
          \/ emit(p)
    \/ Join

SpecHandshake == Init /\ [][HandshakeNext]_vars

----------------------------------------------------------------------------
(* Vocabulary of the properties *)

\* the one session of Spec and its two seats
S1 == sessions[1]
Seats == {S1.player1_id, S1.player2_id}

\* the persisted rows: everything but the rooms and the emissions
persisted == <<sessions, elo, streak, history>>

\* the handler that ran last broadcast `event` to a game room
Emitted(event, emitted) == Count(event, emitted) > 0

RoomEvents ==
    {"player_ready", "game_start", "game_over_stats", "opponent_forfeit", "move"}

\* no emission of the handler goes to a game room
Silent(emitted) == \A i \in 1..Len(emitted) : emitted[i].event \notin RoomEvents

LastRow == history[Len(history)]

----------------------------------------------------------------------------
(* C1: the scoring pipeline runs at most once for the session: at most one  *)
(* GameHistory row is ever created for it and each participant's            *)
(* games-played counter is raised by it at most once.                       *)
C1_ScoredAtMostOnce ==
    /\ Len(history) <= 1
    /\ \A u \in Seats : streak[u].games_played <= 1

(* C2: once a termination has completed and scored the session, every      *)
(* later game_over and every later forfeit is a no-op: no persisted row     *)
(* changes and no game_over_stats broadcast is emitted.                     *)
C2_LaterTerminationNoOp ==
    [][(Len(history) > 0 /\ (GameOver \/ Forfeit))
         => (UNCHANGED persisted /\ ~Emitted("game_over_stats", out'))]_vars

(* C3: terminal states are absorbing: once the status is completed or       *)
(* abandoned no event changes it again.                                     *)
C3_TerminalAbsorbing ==
    [][S1.status \in {"completed", "abandoned"}
         => sessions'[1].status = S1.status]_vars

(* C4: an abandoned session is never scored: a game_over or forfeit on it   *)
(* leaves the status abandoned, writes no GameHistory row and changes no    *)
(* rating and no streak counter.                                            *)
C4_AbandonedNeverScored ==
    [][(S1.status = "abandoned" /\ (GameOver \/ Forfeit))
         => (sessions'[1].status = "abandoned"
             /\ UNCHANGED <<elo, streak, history>>)]_vars

\* the winner a game_over event names, read off the event alone
NamedWinner(w, c) ==
    IF w # NoUser THEN w
    ELSE IF c = "" THEN NoUser
    ELSE IF c = "w" THEN S1.player1_id ELSE S1.player2_id

(* C5: game_over on an active session sets the status to completed, records *)
(* the resolved winner, moves both participants' ratings to the values the  *)
(* new GameHistory row holds (a decisive result for a participant raises    *)
(* the winner and lowers the loser), adds exactly one GameHistory row,      *)
(* raises both participants' games-played counters by one and emits exactly *)
(* one broadcast, game_over_stats, to the whole session room.               *)
C5_GameOverScoresActive ==
    [][\A w \in WinnerIds, c \in Colors, d \in BOOLEAN :
         (S1.status = "active" /\ on_game_over(1, w, c, d)) =>
           LET row == history'[Len(history')]
               p1  == S1.player1_id
               p2  == S1.player2_id
           IN  /\ sessions'[1].status = "completed"
               /\ sessions'[1].winner_id = NamedWinner(w, c)
               /\ Len(history') = Len(history) + 1
               /\ SubSeq(history', 1, Len(history)) = history
               /\ row.winner_id = NamedWinner(w, c)
               /\ row.player1_id = p1 /\ row.player2_id = p2
               /\ row.player1_elo_before = elo[p1]
               /\ row.player2_elo_before = elo[p2]
               /\ row.player1_elo_after = elo'[p1]
               /\ row.player2_elo_after = elo'[p2]
               /\ \A u \in Users \ Seats : elo'[u] = elo[u] /\ streak'[u] = streak[u]
               /\ (~d /\ NamedWinner(w, c) = p1) => (elo'[p1] > elo[p1] /\ elo'[p2] < elo[p2])
               /\ (~d /\ NamedWinner(w, c) = p2) => (elo'[p2] > elo[p2] /\ elo'[p1] < elo[p1])
               /\ \A u \in Seats : streak'[u].games_played = streak[u].games_played + 1
               /\ Len(out') = 1
               /\ out'[1].event = "game_over_stats"
               /\ out'[1].to = rooms[1]
               /\ out'[1].data.winner_id = NamedWinner(w, c)]_vars

\* an activated session was scored for the first time by the game_over that
\* ran last
C5_Witness ==
    /\ S1.status = "completed"
    /\ sent["game_start"] = 1
    /\ Len(history) = 1
    /\ Len(out) = 1
    /\ out[1].event = "game_over_stats"
    /\ out[1].to = Users

(* C6: ready events from the two participants, duplicates included, give    *)
(* exactly one game_start broadcast in total: once the session has been     *)
(* started, a further ready of a participant emits no second game_start.    *)
C6_OneGameStart ==
    [][\A u \in Seats :
         (/\ on_ready(u, 1)
          /\ S1.status = "active"
          /\ sent["game_start"] >= 1
          /\ Len(history) = 0)
           => ~Emitted("game_start", out')]_vars

(* C7: ready is idempotent per player: a second ready of the same           *)
(* participant on a waiting session whose other participant is not ready    *)
(* changes no state and emits no second player_ready broadcast.             *)
C7_ReadyIdempotent ==
    [][\A u \in Seats :
         (/\ on_ready(u, 1)
          /\ S1.status = "waiting"
          /\ ReadyFlagged(S1, u) = S1
          /\ ~(S1.player1_ready /\ S1.player2_ready))
           => (UNCHANGED persisted /\ ~Emitted("player_ready", out'))]_vars

(* C8: forfeit on a waiting session sets its status to abandoned, changes   *)
(* nothing else of the session, no rating, no streak counter and no         *)
(* GameHistory row, and its one emission, opponent_forfeit, goes to the     *)
(* room members other than the sender.                                      *)
C8_ForfeitWaitingAbandons ==
    [][\A u \in Users :
         (S1.status = "waiting" /\ on_forfeit(u, 1)) =>
           /\ sessions'[1] = [S1 EXCEPT !.status = "abandoned"]
           /\ UNCHANGED <<elo, streak, history>>
           /\ Len(out') = 1
           /\ out'[1].event = "opponent_forfeit"
           /\ out'[1].to = rooms[1] \ {u}]_vars

\* a waiting session in whose room both participants sat was forfeited by
\* one of them: the notification went to the other alone
C8_Witness ==
    /\ S1.status = "abandoned"
    /\ Len(history) = 0
    /\ rooms[1] = Seats
    /\ Len(out) = 1
    /\ out[1].event = "opponent_forfeit"
    /\ Cardinality(out[1].to) = 1

(* C9: forfeit on an active session adds exactly one GameHistory row whose  *)
(* winner is the participant other than the forfeiting user, completes the  *)
(* session with that winner and scores the ratings with that winner (the    *)
(* winner's rating rises, the other participant's falls).                   *)
C9_ForfeitActiveScoresOther ==
    [][\A u \in Users :
         (S1.status = "active" /\ on_forfeit(u, 1)) =>
           LET row == history'[Len(history')]
               w   == row.winner_id
           IN  /\ Len(history') = Len(history) + 1
               /\ SubSeq(history', 1, Len(history)) = history
               /\ w \in Seats \ {u}
               /\ sessions'[1].status = "completed"
               /\ sessions'[1].winner_id = w
               /\ elo'[w] > elo[w]
               /\ \A l \in Seats \ {w} : elo'[l] < elo[l]
               /\ Emitted("game_over_stats", out')
               /\ \A i \in 1..Len(out') :
                    out'[i].event = "game_over_stats" => out'[i].data.winner_id = w]_vars

\* an activated session was scored for the first time by the forfeit of a
\* participant that ran last
C9_Witness ==
    /\ S1.status = "completed"
    /\ sent["game_start"] = 1
    /\ Len(history) = 1
    /\ Len(out) = 2
    /\ out[1].event = "opponent_forfeit"
    /\ out[1].data.winner_name \in Seats
    /\ LastRow.winner_id # out[1].data.winner_name

(* C10: a ready or forfeit sent by a user who is neither player one nor     *)
(* player two changes no persisted row and causes no broadcast to the       *)
(* session room.                                                            *)
C10_OutsiderIgnored ==
    [][\A u \in Users \ Seats :
         (on_ready(u, 1) \/ on_forfeit(u, 1))
           => (UNCHANGED persisted /\ Silent(out'))]_vars

(* C11: in every reachable state the session's winner id, when present, is  *)
(* one of the session's two participant ids.                                *)
C11_WinnerIsParticipant == S1.winner_id \in Seats \cup {NoUser}

(* C12: every GameHistory row whose winner id is null records a draw: both  *)
(* participants were scored with actual score 0.5, so a row written at      *)
(* equal ratings shows neither rating changed.                              *)
C12_NullWinnerIsDraw ==
    \A i \in 1..Len(history) :
        (history[i].winner_id = NoUser
         /\ history[i].player1_elo_before = history[i].player2_elo_before)
          => (/\ history[i].player1_elo_after = history[i].player1_elo_before
              /\ history[i].player2_elo_after = history[i].player2_elo_before)

(* C18: a move event is delivered, with its payload unchanged, to every     *)
(* connection subscribed to the session's room other than the sender and    *)
(* never to the connection that sent it.                                    *)
C18_MoveRelayedToOthers ==
    [][\A c \in Users, data \in ChessMoves :
         on_move(c, 1, data) =>
           /\ Len(out') = 1
           /\ out'[1].event = "move"
           /\ out'[1].data = data
           /\ out'[1].to = rooms[1] \ {c}
           /\ UNCHANGED rooms]_vars

\* a move carrying a position went to the two other members of the full room
C18_Witness ==
    /\ rooms[1] = Users
    /\ Len(out) = 1
    /\ out[1].event = "move"
    /\ out[1].data.fen = "e4"
    /\ Cardinality(out[1].to) = 2

\* the blob a move supplies: the first non-empty of fen, board, game_state
Supplied(data) ==
    CASE data.fen # "" -> data.fen
      [] data.fen = "" /\ data.board # "" -> data.board
      [] OTHER -> data.game_state

(* C19 as stated: move unconditionally overwrites the persisted state blob  *)
(* with the supplied value, an empty blob included, so the blob a join      *)
(* reports is exactly the blob the last move supplied.  Stated for the     *)
(* payloads whose blob is a string or absent.                               *)
C19_LastWriterWins ==
    [][\A c \in Users, data \in {d \in MoveData : d.board = ""} :
         on_move(c, 1, data) => sessions'[1].game_state = Supplied(data)]_vars

(* C19 as amended: whoever sends it, a move whose supplied blob is          *)
(* non-empty overwrites the persisted blob with the string form of that     *)
(* blob (a string as it is, a list as its Python text), a move with no or   *)
(* an empty blob leaves the persisted blob as it was, a move changes        *)
(* nothing else of the session, and a join reports the persisted blob.      *)
C19_LastNonEmptyWins ==
    [][/\ \A c \in Users, data \in MoveData :
            on_move(c, 1, data) =>
              sessions'[1] =
                [S1 EXCEPT !.game_state =
                    IF Supplied(data) = "" THEN S1.game_state
                    ELSE IF Supplied(data) = "[X]" THEN "['X']"
                    ELSE Supplied(data)]
       /\ \A c \in Users :
            on_join(c, 1) => out'[1].data.game_state = S1.game_state]_vars

\* a move without a blob ran last and the blob of an earlier move, a list
\* board, is still the persisted one
C19_Witness ==
    /\ Len(out) = 1
    /\ out[1].event = "move"
    /\ Supplied(out[1].data) = ""
    /\ S1.game_state = "['X']"

(* C20: join changes no persisted row; for an existing session its one      *)
(* emission is an init_game reply to the caller alone that equals the       *)
(* persisted status, state blob, ready flags and participant ids; for an    *)
(* unknown session id it emits nothing; in both cases the caller is         *)
(* subscribed to the room.                                                  *)
C20_JoinReadsOnly ==
    [][\A c \in Users, id \in RoomIds :
         on_join(c, id) =>
           /\ UNCHANGED persisted
           /\ rooms'[id] = rooms[id] \cup {c}
           /\ id \notin DOMAIN sessions => out' = <<>>
           /\ id \in DOMAIN sessions =>
                /\ Len(out') = 1
                /\ out'[1].event = "init_game"
                /\ out'[1].to = {c}
                /\ out'[1].data.status = sessions[id].status
                /\ out'[1].data.game_state = sessions[id].game_state
                /\ out'[1].data.p1_ready = sessions[id].player1_ready
                /\ out'[1].data.p2_ready = sessions[id].player2_ready
                /\ out'[1].data.p1_id = sessions[id].player1_id
                /\ out'[1].data.p2_id = sessions[id].player2_id]_vars

\* after a join of the unknown room name, a join of session 1 was answered
\* with a snapshot in which one player is ready and a blob is stored
C20_Witness ==
    /\ rooms[2] # {}
    /\ Len(out) = 1
    /\ out[1].event = "init_game"
    /\ out[1].data.p2_ready /\ ~out[1].data.p1_ready
    /\ out[1].data.game_state = "m1"
    /\ out[1].data.status = "waiting"

----------------------------------------------------------------------------
(* Terminations under refused commits (SpecFaults) *)

\* the invocation of SpecFaults and whether it went into calculate_elo
T1 == tx[1]
WasScoring(t) ==
    \/ t.op = "game_over"
    \/ t.op = "forfeit" /\ ~ForfeitAbandons(t.gs)

\* C13: the status flip to completed, the rating updates, the streak updates
\* and the GameHistory row are one atomic unit: once no handler is running,
\* a started session that is completed, or whose players' ratings moved, has
\* its GameHistory row and both streak updates, also after a refused commit.
C13_ScoringAtomic ==
    (/\ ~Running(1)
     /\ S1.player1_ready /\ S1.player2_ready
     /\ \/ S1.status = "completed"
        \/ \E u \in Seats : elo[u] # DefaultElo)
    => /\ Len(history) > 0
       /\ \A u \in Seats : streak[u].games_played > 0

Joined == Snapshot(S1)

\* the committed rows show the mutation the broadcast e reports
Reported(e) ==
    CASE e.event = "game_start"   -> Joined.status = "active"
      [] e.event = "player_ready" ->
             /\ e.data.user_id = S1.player1_id => Joined.p1_ready
             /\ e.data.user_id = S1.player2_id => Joined.p2_ready
      [] e.event = "move" ->
             NewState(e.data) # "" => Joined.game_state = PyStr(NewState(e.data))
      [] e.event = "opponent_forfeit" ->
             Joined.status \in {"abandoned", "completed"}
      [] e.event = "game_over_stats" ->
             /\ Joined.status = "completed"
             /\ S1.winner_id = e.data.winner_id
             /\ elo[e.data.p1.id] = e.data.p1.new_elo
             /\ elo[e.data.p2.id] = e.data.p2.new_elo
             /\ Len(history) > 0
             /\ history[Len(history)].player1_elo_after = e.data.p1.new_elo
             /\ history[Len(history)].player2_elo_after = e.data.p2.new_elo

\* C17: every broadcast is sent only after the mutation it reports is
\* durably committed, and a handler whose write is refused sends none: when a
\* handler has finished, each broadcast it sent agrees with the committed rows
\* and so with the snapshot a join would get next.
C17_BroadcastAfterCommit ==
    T1.pc = "done" => \A i \in 1..Len(out) : Reported(out[i])

\* a handler that finished by broadcasting the statistics of a scored game,
\* in a run in which a commit was refused
C17_Witness ==
    /\ T1.pc = "done"
    /\ faults > 0
    /\ \E i \in 1..Len(out) : out[i].event = "game_over_stats"

----------------------------------------------------------------------------
(* Handlers in flight together (SpecRace, SpecHandshake) *)

\* C15: two game_over / forfeit handlers running concurrently on the same
\* active session score it exactly once: at most one GameHistory row, one
\* rating update and one games-played increment per participant.
C15_RaceScoredOnce ==
    /\ Len(history) <= 1
    /\ \A u \in Seats : streak[u].games_played <= 1

\* C16: once the two concurrent ready handlers have both finished, both
\* ready flags are set, the session is active and exactly one game_start has
\* been broadcast.
C16_HandshakeStartsOnce ==
    (\A p \in Procs : tx[p].pc = "done")
    => /\ S1.player1_ready /\ S1.player2_ready
       /\ S1.status = "active"
       /\ sent["game_start"] = 1

----------------------------------------------------------------------------
(* Events on an unknown session id (SpecStray) *)

\* C21: a ready, move, game_over or forfeit event that names a session id
\* without a row changes no persisted state and reaches nobody: no reply to
\* the sender and no broadcast that a connection in some room receives.
C21_UnknownSessionSilent ==
    [][(ReadyStray \/ MoveStray \/ GameOverStray \/ ForfeitStray)
         => /\ UNCHANGED persisted
            /\ \A i \in 1..Len(out') : out'[i].to = {}]_vars

----------------------------------------------------------------------------
(* Ratings, counters and the lifecycle over whole runs (Spec) *)

\* the users who sat in a scored game
Scored(h) == UNION {{h[i].player1_id, h[i].player2_id} : i \in 1..Len(h)}

C27_CountersMatchScoredSessions ==
    LET scored == IF Len(history) > 0 THEN 1 ELSE 0
        won    == IF Len(history) > 0 /\ S1.winner_id # NoUser THEN 1 ELSE 0
    IN  /\ \A u \in Seats : streak[u].games_played = scored
        /\ \A u \in Users \ Seats : streak[u].games_played = 0
        /\ streak[S1.player1_id].games_won + streak[S1.player2_id].games_won = won

\* C30: the only status changes that ever occur are waiting to active by
\* ready, active to completed by game_over or forfeit and waiting to
\* abandoned by forfeit; a game_over on a waiting session neither completes
\* nor scores it.
C30_LifecycleOrder ==
    [][/\ sessions'[1].status # S1.status =>
            \/ S1.status = "waiting" /\ sessions'[1].status = "active" /\ Ready
            \/ S1.status = "active" /\ sessions'[1].status = "completed"
                                    /\ (GameOver \/ Forfeit)
            \/ S1.status = "waiting" /\ sessions'[1].status = "abandoned"
                                     /\ Forfeit
       /\ (S1.status = "waiting" /\ GameOver) => UNCHANGED persisted]_vars

----------------------------------------------------------------------------
(* The rating function (SpecRated) *)

\* C28: the rating computation is symmetric: scoring (A, B, outcome) and
\* scoring (B, A, the same outcome with the roles swapped) give the same two
\* new ratings with the positions swapped, and these are the ratings the
\* scoring writes.
C28_EloSymmetric ==
    [][\A w \in WinnerIds, c \in Colors, d \in BOOLEAN :
         (S1.status = "active" /\ on_game_over(1, w, c, d)) =>
           LET a   == S1.player1_id
               b   == S1.player2_id
               win == ResolveWinner(S1, w, c)
               ab  == calculate_elo(win, a, b, d)
               ba  == calculate_elo(win, b, a, d)
           IN  /\ ba[2] = ab[4] /\ ba[4] = ab[2]
               /\ ba[1] = ab[3] /\ ba[3] = ab[1]
               /\ elo'[a] = ab[2] /\ elo'[b] = ab[4]]_vars

\* a game between differently rated players was won by one of them
C28_Witness ==
    /\ Len(history) = 1
    /\ LastRow.player1_elo_before # LastRow.player2_elo_before
    /\ LastRow.winner_id \in Seats
    /\ LastRow.player1_elo_after # LastRow.player1_elo_before

\* C29: with K = 32 and equal ratings a decisive game moves the winner up by
\* 16 and the loser down by 16 (1200, 1200 with player one winning gives
\* 1216, 1184) and a draw leaves both ratings unchanged.
C29_EqualRatingsSixteen ==
    [][\A w \in WinnerIds, c \in Colors, d \in BOOLEAN :
         (/\ S1.status = "active"
          /\ elo[S1.player1_id] = elo[S1.player2_id]
          /\ on_game_over(1, w, c, d)) =>
           LET win == ResolveWinner(S1, w, c)
           IN  /\ d => UNCHANGED elo
               /\ (~d /\ win \in Seats) =>
                     /\ elo'[win] = elo[win] + 16
                     /\ \A l \in Seats \ {win} : elo'[l] = elo[l] - 16]_vars

\* 1200, 1200 with player one winning became 1216, 1184
C29_Witness ==
    /\ Len(history) = 1
    /\ LastRow.winner_id = LastRow.player1_id
    /\ LastRow.player1_elo_before = 1200 /\ LastRow.player2_elo_before = 1200
    /\ elo[LastRow.player1_id] = 1216 /\ elo[LastRow.player2_id] = 1184

----------------------------------------------------------------------------
(* Challenges (SpecChallenge) *)

\* the pairings in which u takes part and that are active
ActivePairings(u) ==
    {p \in Pairs : p.status = "active" /\ u \in {p.senior_id, p.youth_id}}

\* the sessions a step has created
Born == DOMAIN sessions' \ DOMAIN sessions

\* C22: no operation of the core ever deletes a GameSession: a session that
\* exists keeps existing, with its id, after every step, a later challenge
\* between the same pair for the same game included.
C22_SessionsNeverDeleted ==
    [][\A sid \in DOMAIN sessions :
         sid \in DOMAIN sessions' /\ sessions'[sid].id = sid]_vars

\* C23: challenge creates a session only when the challenger has an active
\* pairing, and the session it creates is waiting with both ready flags
\* false, player one the challenger, player two the paired buddy (a
\* different user) and the challenger holding the turn; without an active
\* pairing it creates no session and no notification and pushes nothing.
C23_ChallengeCreatesWaiting ==
    [][\A u \in Users, g \in GameIds :
         (senior_challenge_buddy(u, g) \/ youth_challenge_buddy(u, g)) =>
           /\ ActivePairings(u) = {} =>
                 /\ UNCHANGED <<sessions, notifs>>
                 /\ ~Emitted("game_challenge", out')
           /\ \A sid \in Born :
                 \E p \in ActivePairings(u) :
                     LET gs == sessions'[sid] IN
                     /\ gs.id = sid /\ gs.game_id = g
                     /\ gs.status = "waiting"
                     /\ ~gs.player1_ready /\ ~gs.player2_ready
                     /\ gs.player1_id = u
                     /\ gs.player2_id \in {p.senior_id, p.youth_id} \ {u}
                     /\ gs.current_turn_id = u
                     /\ gs.game_state = "" /\ gs.winner_id = NoUser]_vars

\* the youth's challenge, made while the seeded session was running, created
\* session 2 with the youth in the first seat and a notification for the
\* senior
C23_Witness ==
    /\ 2 \in DOMAIN sessions
    /\ sessions[2].player1_id = 2 /\ sessions[2].player2_id = 1
    /\ Len(notifs) = 1 /\ notifs[1].user_id = 1 /\ notifs[1].link = 2

\* C24: every session created by challenge has a durable unread notification
\* for the invitee, also after a refused commit: there is no state in which
\* the session exists, its game_challenge push went out and no notification
\* row for it exists.
C24_ChallengeHasNotification ==
    \A sid \in DOMAIN sessions \ SessionIds :
        \E j \in 1..Len(notifs) :
            /\ notifs[j].link = sid
            /\ notifs[j].user_id = sessions[sid].player2_id
            /\ ~notifs[j].is_read

\* C25: a game_challenge is pushed into a user's room only by a step that
\* created a waiting session between two users with an active pairing, and
\* it goes to the room of that session's second player.
C25_PushOnlyWithSession ==
    [][\A i \in 1..Len(out') :
         out'[i].event = "game_challenge" =>
           \E sid \in Born :
               /\ sessions'[sid].status = "waiting"
               /\ out'[i].to = UserRoom(sessions'[sid].player2_id)
               /\ \E p \in ActivePairings(sessions'[sid].player1_id) :
                     sessions'[sid].player2_id \in {p.senior_id, p.youth_id}]_vars

----------------------------------------------------------------------------
(* Disconnects (SpecPresence) *)

\* C31: a connection disconnecting changes no persisted session state
\* (status, ready flags, state blob, winner) and scores nothing: it only
\* drops the connection's room subscriptions, and nothing is emitted.
C31_DisconnectKeepsSession ==
    [][\A c \in Users :
         on_disconnect(c) =>
           /\ UNCHANGED persisted
           /\ out' = <<>>
           /\ \A r \in RoomIds : rooms'[r] = rooms[r] \ {c}]_vars

\* a participant of the started session has dropped out of its room and the
\* session is still active with its position
C31_Witness ==
    /\ S1.status = "active"
    /\ S1.game_state # ""
    /\ out = <<>>
    /\ rooms[1] # {}
    /\ \E u \in Seats : u \notin rooms[1]

----------------------------------------------------------------------------
(* Terminations in detail (Spec) *)

\* C32: a forfeit that terminates an active session emits opponent_forfeit
\* to every room member but the forfeiting connection and then
\* game_over_stats to every room member, the forfeiting one included, and a
\* forfeit emits the two only when it scored the session.
C32_ForfeitDeliveries ==
    [][\A u \in Users :
         on_forfeit(u, 1) =>
           /\ S1.status = "active" =>
                 /\ Len(out') = 2
                 /\ out'[1].event = "opponent_forfeit"
                 /\ out'[1].to = rooms[1] \ {u}
                 /\ out'[2].event = "game_over_stats"
                 /\ out'[2].to = rooms[1]
           /\ Emitted("game_over_stats", out') =>
                 /\ Emitted("opponent_forfeit", out')
                 /\ Len(history') = Len(history) + 1
                 /\ sessions'[1].status = "completed"
           /\ S1.status = "completed" => out' = <<>>]_vars

\* a participant sitting in the room with the other forfeited the started
\* game: the statistics reached the forfeiter, opponent_forfeit did not
C32_Witness ==
    /\ S1.status = "completed"
    /\ Len(history) = 1
    /\ Len(out) = 2
    /\ out[1].event = "opponent_forfeit" /\ out[2].event = "game_over_stats"
    /\ out[1].data.winner_name \in out[2].to
    /\ out[1].data.winner_name \notin out[1].to
    /\ out[1].to # {}

----------------------------------------------------------------------------
(* Winner resolution (SpecResolve) *)

\* C33: in game_over a supplied winner_id is used as it is and takes
\* precedence over winner_color; without one, a winner_color of 'w', 'red' or
\* 'X' resolves to player one and any other non-empty winner_color to player
\* two.  The resolved id is the session's winner, the history row's and the
\* broadcast's.
C33_WinnerResolution ==
    [][\A w \in WinnerIds, c \in AllColors, d \in BOOLEAN :
         (S1.status = "active" /\ on_game_over(1, w, c, d)) =>
           LET win == IF w # NoUser THEN w
                      ELSE IF c \in {"w", "red", "X"} THEN S1.player1_id
                      ELSE IF c # "" THEN S1.player2_id
                      ELSE NoUser
           IN  /\ sessions'[1].winner_id = win
               /\ history'[Len(history')].winner_id = win
               /\ out'[1].data.winner_id = win]_vars

\* a game_over was resolved to player two with the ratings moving in that
\* player's favour
C33_Witness ==
    /\ S1.status = "completed"
    /\ Len(history) = 1
    /\ S1.winner_id = S1.player2_id
    /\ LastRow.winner_id = S1.player2_id
    /\ LastRow.player2_elo_after > LastRow.player2_elo_before

----------------------------------------------------------------------------
(* The record of a termination and what no handler touches (Spec) *)

\* the statistics broadcast among the emissions of the handler that ran last
StatsOf(emitted) ==
    emitted[CHOOSE i \in 1..Len(emitted) : emitted[i].event = "game_over_stats"].data

\* C34: the GameHistory row of a termination holds for each participant as
\* 'before' the rating stored when the termination began and as 'after' the
\* rating stored when it ended, and the game_over_stats broadcast carries the
\* same four values and the same winner as the row.
C34_HistoryMatchesRatings ==
    [][Len(history') = Len(history) + 1 =>
         LET row == history'[Len(history')]
             st  == StatsOf(out')
         IN  /\ row.player1_id = S1.player1_id /\ row.player2_id = S1.player2_id
             /\ row.player1_elo_before = elo[row.player1_id]
             /\ row.player2_elo_before = elo[row.player2_id]
             /\ row.player1_elo_after = elo'[row.player1_id]
             /\ row.player2_elo_after = elo'[row.player2_id]
             /\ Emitted("game_over_stats", out')
             /\ st.p1.id = row.player1_id /\ st.p2.id = row.player2_id
             /\ st.p1.old_elo = row.player1_elo_before
             /\ st.p1.new_elo = row.player1_elo_after
             /\ st.p2.old_elo = row.player2_elo_before
             /\ st.p2.new_elo = row.player2_elo_after
             /\ st.winner_id = row.winner_id
             /\ row.winner_id = sessions'[1].winner_id]_vars

\* a second scoring started from ratings the first one had moved, and its
\* broadcast shows the step 1216 to 1231
C34_Witness ==
    /\ Len(history) = 2
    /\ Emitted("game_over_stats", out)
    /\ StatsOf(out).p1.old_elo = 1216 /\ StatsOf(out).p1.new_elo = 1231
    /\ LastRow.player1_elo_before = 1216
    /\ elo[LastRow.player1_id] = 1231

\* C37: the current-turn holder and the two participant ids of a session
\* never change: ready, move, game_over, forfeit and join leave them as the
\* challenge set them, so the turn holder is player one, the challenger,
\* throughout.
C37_SeatsAndTurnFixed ==
    [][/\ sessions'[1].current_turn_id = S1.current_turn_id
       /\ sessions'[1].player1_id = S1.player1_id
       /\ sessions'[1].player2_id = S1.player2_id
       /\ sessions'[1].current_turn_id = sessions'[1].player1_id
       /\ sessions'[1].id = S1.id /\ sessions'[1].game_id = S1.game_id]_vars

\* a session that was started, played with a position on record and scored
\* still has player one as turn holder
C37_Witness ==
    /\ S1.status = "completed"
    /\ S1.game_state # ""
    /\ Len(history) > 0
    /\ S1.current_turn_id = S1.player1_id

----------------------------------------------------------------------------
(* Live sessions of a pair (SpecChallenge) *)

\* the sessions of game g between users a and b that are waiting or active
LiveSessions(a, b, g) ==
    {sid \in DOMAIN sessions :
        /\ sessions[sid].game_id = g
        /\ {sessions[sid].player1_id, sessions[sid].player2_id} = {a, b}
        /\ sessions[sid].status \in {"waiting", "active"}}

\* C35: after any sequence of challenges by the two members of a pair for the
\* same game there is at most one session in status waiting or active between
\* them for that game.
C35_OneLiveSession == Cardinality(LiveSessions(1, 2, 1)) <= 1

----------------------------------------------------------------------------
(* Ready flags of a started session (SpecFaults) *)

\* C36: in every committed state a session whose status is active has both
\* ready flags true, and no step turns a ready flag that is true to false.
C36_ActiveMeansBothReady ==
    [][/\ sessions'[1].status = "active" =>
            (sessions'[1].player1_ready /\ sessions'[1].player2_ready)
       /\ S1.player1_ready => sessions'[1].player1_ready
       /\ S1.player2_ready => sessions'[1].player2_ready]_vars

\* a ready handler has committed the activation, after a commit was refused
\* on the way, and both flags are set
C36_Witness ==
    /\ S1.status = "active"
    /\ S1.player1_ready /\ S1.player2_ready
    /\ faults > 0
    /\ \E p \in Procs : tx[p].op = "ready" /\ tx[p].pc = "done"

----------------------------------------------------------------------------
(* Ratings and points of a termination (SpecRated) *)

\* the two ratings of the session's participants, added
SeatSum(e) == e[S1.player1_id] + e[S1.player2_id]

\* C38: every scored termination leaves the sum of the two participants'
\* ratings as it was.
C38_ZeroSum ==
    [][Len(history') = Len(history) + 1 => SeatSum(elo') = SeatSum(elo)]_vars

\* C39: a scored decisive game gives the winner 50 points and the loser 5; a
\* scored draw gives each participant 20 points and raises neither games-won
\* counter, whatever winner_id the event carried.
C39_PointsAwarded ==
    [][\A w \in WinnerIds, c \in Colors, d \in BOOLEAN :
         (S1.status = "active" /\ on_game_over(1, w, c, d)) =>
            LET win == sessions'[1].winner_id
            IN  \A p \in Seats :
                  /\ d => /\ streak'[p].points = streak[p].points + 20
                          /\ streak'[p].games_won = streak[p].games_won
                  /\ (~d /\ win \in Seats) =>
                          streak'[p].points = streak[p].points
                                              + (IF p = win THEN 50 ELSE 5)]_vars

====
